---- MODULE Spec2Model ----
(***************************************************************************)
(* Model of helpers/masking_methods.py (class FrequencyMasking): the mask  *)
(* engine (__call__, the mask routines, applyMask / applyReverseMask) and  *)
(* the exponent optimizer optAlpha.                                        *)
(*                                                                         *)
(* Spectrogram elements are binary floating-point numbers.  The model      *)
(* keeps the structure of IEEE arithmetic (round to nearest, ties to even, *)
(* after every operation; overflow to infinity; NaN) on a format with Prec *)
(* significant bits instead of the 53 of numpy's float64.                  *)
(***************************************************************************)
EXTENDS Integers, Sequences, FiniteSets, TLC

(***************************************************************************)
(* Floating-point format.  A finite float is the integer v standing for    *)
(* v * 2^-FracBits; the three special values are integers outside the      *)
(* finite range, placed so that <= orders -inf < finite < +inf.            *)
(***************************************************************************)
Prec == 4

FracBits == Prec + 2

One == 2 ^ FracBits

MaxFin == (2 ^ Prec - 1) * 2 ^ (14 - Prec)

PInf == 2 ^ 20

NInf == 0 - PInf

NaN == 2 ^ 21

IsNaN(x) == x = NaN

IsFin(x) == x >= 0 - MaxFin /\ x <= MaxFin

Abs(n) == IF n < 0 THEN 0 - n ELSE n

Sign(n) == IF n < 0 THEN 0 - 1 ELSE 1

RECURSIVE Bits(_)
\* number of bits of the natural number q (0 for q = 0)
Bits(q) == IF q = 0 THEN 0 ELSE 1 + Bits(q \div 2)

\* a / b rounded to the nearest integer, ties to the even one (a >= 0, b > 0)
RHE(a, b) ==
    LET q == a \div b
        r == a % b
    IN  IF 2 * r > b \/ (2 * r = b /\ q % 2 = 1) THEN q + 1 ELSE q

\* the float nearest to n / d units (d > 0): Prec significant bits, ties to
\* even, overflow to the infinity of the sign
RU(n, d) ==
    LET mag == Abs(n)
        q0  == mag \div d
        Q   == IF q0 < 2 ^ Prec THEN 1 ELSE 2 ^ (Bits(q0) - Prec)
        r   == RHE(mag, d * Q) * Q
    IN  IF r > MaxFin THEN (IF n < 0 THEN NInf ELSE PInf) ELSE Sign(n) * r

Neg(a) == IF IsNaN(a) THEN NaN ELSE 0 - a

Add(a, b) ==
    IF IsNaN(a) \/ IsNaN(b) THEN NaN
    ELSE IF ~IsFin(a) THEN (IF ~IsFin(b) /\ b # a THEN NaN ELSE a)
    ELSE IF ~IsFin(b) THEN b
    ELSE RU(a + b, 1)

Sub(a, b) == Add(a, Neg(b))

Mul(a, b) ==
    IF IsNaN(a) \/ IsNaN(b) THEN NaN
    ELSE IF ~IsFin(a) \/ ~IsFin(b)
         THEN (IF a = 0 \/ b = 0 THEN NaN
               ELSE IF Sign(a) = Sign(b) THEN PInf ELSE NInf)
    ELSE RU(a * b, One)

Div(a, b) ==
    IF IsNaN(a) \/ IsNaN(b) THEN NaN
    ELSE IF ~IsFin(a)
         THEN (IF ~IsFin(b) THEN NaN
               ELSE IF Sign(a) = Sign(b) THEN PInf ELSE NInf)
    ELSE IF ~IsFin(b) THEN 0
    ELSE IF b = 0
         THEN (IF a = 0 THEN NaN ELSE IF a > 0 THEN PInf ELSE NInf)
    ELSE RU(Sign(b) * a * One, Abs(b))

\* the float of the natural number n
F(n) == RU(n * One, 1)

\* float comparisons: every comparison with NaN is false
Ge(a, b) == ~IsNaN(a) /\ ~IsNaN(b) /\ a >= b

Lt(a, b) == ~IsNaN(a) /\ ~IsNaN(b) /\ a < b

(***************************************************************************)
(* np.exp, np.log and ** on the format: evaluated in fixed point with 14   *)
(* fraction bits (far finer than Prec) and then rounded once to a float.   *)
(***************************************************************************)
FxOne == 2 ^ 14

LN2 == (45426 * FxOne) \div (2 ^ 16)

RECURSIVE ExpSeries(_, _)
\* e^r in fixed point, 0 <= r < LN2: 1 + r/n * (1 + r/(n+1) * (...))
ExpSeries(r, n) ==
    IF n > 8 THEN FxOne
    ELSE FxOne + (r * ExpSeries(r, n + 1)) \div (n * FxOne)

\* e^(xF / FxOne) rounded to a float
ExpFx(xF) ==
    LET k  == xF \div LN2
        er == ExpSeries(xF - k * LN2, 1)
        sh == 14 - FracBits - k
    IN  IF sh <= 0 THEN PInf
        ELSE IF sh > 16 THEN 0
        ELSE RU(er, 2 ^ sh)

Exp(z) ==
    IF IsNaN(z) THEN NaN
    ELSE IF z = PInf THEN PInf
    ELSE IF z = NInf THEN 0
    ELSE ExpFx(z * (FxOne \div One))

RECURSIVE AtanhSeries(_, _)
\* 1/n + y2 * (1/(n+2) + y2 * (...)) in fixed point
AtanhSeries(y2, n) ==
    IF n > 9 THEN 0
    ELSE FxOne \div n + (y2 * AtanhSeries(y2, n + 2)) \div FxOne

\* ln of the finite float x > 0, in fixed point: x = m * 2^e with 1 <= m < 2,
\* ln x = e * ln 2 + 2 * atanh((m - 1) / (m + 1))
LogFx(x) ==
    LET b  == Bits(x)
        h  == 2 ^ (b - 1)
        y  == ((x - h) * FxOne) \div (x + h)
        y2 == (y * y) \div FxOne
    IN  (b - 1 - FracBits) * LN2 + 2 * ((y * AtanhSeries(y2, 1)) \div FxOne)

Log(x) ==
    IF IsNaN(x) \/ x < 0 THEN NaN
    ELSE IF x = 0 THEN NInf
    ELSE IF x = PInf THEN PInf
    ELSE RU(LogFx(x) * One, FxOne)

\* x ** y for a base x >= 0 (the bases are magnitudes)
Pow(x, y) ==
    IF y = 0 \/ x = One THEN One
    ELSE IF IsNaN(x) \/ IsNaN(y) \/ x < 0 THEN NaN
    ELSE IF y = One THEN x
    ELSE IF y = 2 * One THEN Mul(x, x)
    ELSE IF x = 0 THEN (IF y > 0 THEN 0 ELSE PInf)
    ELSE IF x = PInf THEN (IF y > 0 THEN PInf ELSE 0)
    ELSE IF y = PInf THEN (IF x < One THEN 0 ELSE PInf)
    ELSE IF y = NInf THEN (IF x < One THEN PInf ELSE 0)
    ELSE ExpFx((y * (LogFx(x) \div 16)) \div (One \div 16))

(***************************************************************************)
(* State.  The engine's fields (FrequencyMasking.__init__), what the last  *)
(* invocation of __call__ did, and the locals of a running optAlpha.       *)
(***************************************************************************)
VARIABLES
    method,       \* self._method
    mX,           \* self._mX: the mixture spectrogram
    sTarget,      \* self._sTarget
    nResidual,    \* self._nResidual: the sequence of residual spectrograms
    pTarget,      \* self._pTarget
    pY,           \* self._pY
    self_alpha,   \* self._alpha
    mask,         \* self._mask
    Out,          \* self._Out
    called,       \* the last invocation of __call__: "none", "forward", "reverse"
    raised,       \* the exception the last __call__ ended with, "" if none
    ran,          \* the routines the last __call__ entered
    returned,     \* the outputs returned so far, by the value of reverse
    alpha,        \* optAlpha: the exponent array the local alpha refers to
    d_loss,       \* optAlpha: d_loss
    lrs,          \* optAlpha: lrs
    i_s_loss,     \* optAlpha: i_s_loss
    alpha_log,    \* optAlpha: alpha_log
    iter_index,   \* optAlpha: iter_index, -1 before the loop assigns it
    cur_loss,     \* optAlpha: the value self._IS(Xhat) of the last iteration
    recorded,     \* history: the arrays as they were when appended to alpha_log
    pc,           \* optAlpha: "idle", "loop", "after", "done"
    path,         \* optAlpha: how the loop ended
    closs,        \* self._closs
    amount_iter   \* self._amount_iter

engineVars == <<method, mX, sTarget, nResidual, pTarget, pY>>

callVars == <<Out, called, raised, ran, returned>>

optVars == <<alpha, d_loss, lrs, i_s_loss, alpha_log, iter_index, cur_loss,
             recorded, pc, path, closs, amount_iter>>

vars == <<engineVars, self_alpha, mask, callVars, optVars>>

(***************************************************************************)
(* Arrays.  A spectrogram of shape (1, T) is the sequence of its T         *)
(* elements; an array of size 0 is << >>.  A phase argument is either an   *)
(* ndarray or the Python list [] that __init__ defaults it to.             *)
(***************************************************************************)
NdArray(a) == [isList |-> FALSE, data |-> a]

EmptyList == [isList |-> TRUE, data |-> << >>]

\* numpy broadcasting of the last axis: equal lengths, or one of them is 1
Broadcastable(a, b) == Len(a) = Len(b) \/ Len(a) = 1 \/ Len(b) = 1

Zip(Op(_, _), a, b) ==
    [i \in 1..(IF Len(a) = 1 THEN Len(b) ELSE Len(a)) |->
        Op(a[IF Len(a) = 1 THEN 1 ELSE i], b[IF Len(b) = 1 THEN 1 ELSE i])]

Map(Op(_), a) == [i \in 1..Len(a) |-> Op(a[i])]

\* machine epsilon of the format: self._eps = np.finfo(np.float).eps
eps == 2 ^ (FracBits - Prec + 1)

AddEps(x) == Add(eps, x)

PlusEps(x) == Add(x, eps)

PowAlpha(x) == Pow(x, self_alpha)

Square(x) == Pow(x, F(2))

\* ndarray.clip(self._eps, np.inf)
ClipEps(x) == IF Lt(x, eps) THEN eps ELSE x

(***************************************************************************)
(* The mask routines: each is the array the routine stores in self._mask.  *)
(***************************************************************************)
IRM == Zip(Div, sTarget, Zip(Add, Map(AddEps, sTarget), nResidual))

IAM == Zip(Div, sTarget, Map(AddEps, nResidual))

PowLog(x) == Log(PowAlpha(ClipEps(x)))

ExpM == Zip(Div, Map(PowLog, sTarget), Map(PowLog, nResidual))

\* thresholding with a strict comparison: an element equal to the threshold
\* becomes 0
ThresholdStrict(m, theta) ==
    [i \in DOMAIN m |->
        IF IsNaN(m[i]) THEN m[i]
        ELSE IF m[i] > theta THEN One ELSE 0]

\* mask[np.where(mask >= theta)] = 1.; mask[np.where(mask < theta)] = 0.
Threshold(m, theta) ==
    [i \in 1..Len(m) |->
        IF Ge(m[i], theta) THEN One ELSE IF Lt(m[i], theta) THEN 0 ELSE m[i]]

IBMRatio == Zip(Div, Map(PowAlpha, sTarget), Map(AddEps, Map(PowAlpha, nResidual)))

IBM == Threshold(IBMRatio, One \div 2)

Times20Log(x) == Mul(F(20), Log(x))

UBBMdB ==
    Map(Times20Log,
        Map(AddEps, Zip(Div, Map(AddEps, Map(PowAlpha, sTarget)),
                             Map(AddEps, Map(PowAlpha, nResidual)))))

UBBM == Threshold(UBBMdB, 0)

RECURSIVE ResidualEnergy(_, _, _)
\* localnResidual after adding the first k residual components
ResidualEnergy(P(_), localsTarget, k) ==
    IF k = 1 THEN Zip(Add, Map(P, nResidual[1]), localsTarget)
    ELSE Zip(Add, ResidualEnergy(P, localsTarget, k - 1), Map(P, nResidual[k]))

WienerLike(P(_)) ==
    LET localsTarget == Map(P, sTarget)
    IN  Zip(Div, Map(PlusEps, localsTarget),
                 Map(AddEps, ResidualEnergy(P, localsTarget, Len(nResidual))))

Wiener == WienerLike(Square)

alphaHarmonizableProcess == WienerLike(PowAlpha)

\* the float nearest to pi
PiF == RU(355 * One, 113)

\* np.cos on the phase differences the model draws: 0 and +-pi
Cos(x) == IF x = 0 THEN One ELSE 0 - One

Sigmoid2(z) == Sub(Div(F(2), Add(One, Exp(Neg(z)))), One)

Theta == Zip(Sub, pTarget.data, pY.data)

PhaseArg == Zip(Mul, Zip(Div, sTarget, Map(AddEps, nResidual)), Map(Cos, Theta))

\* the operands of phaseSensitive have shapes numpy can broadcast
PhaseShapesOk ==
    /\ Broadcastable(pTarget.data, pY.data)
    /\ Broadcastable(sTarget, Theta)

phaseSensitive == Map(Sigmoid2, PhaseArg)

(***************************************************************************)
(* Applying a mask m to the mixture.                                       *)
(***************************************************************************)
applyMask(m) ==
    IF method = "expMask" THEN Zip(Pow, Map(PowAlpha, mX), m)
    ELSE Zip(Mul, m, mX)

OneMinus(x) == Sub(One, x)

\* a reverse application that multiplies by the mask, not by its complement
applyReverseMaskNoComplement(m) == Zip(Mul, m, mX)

\* self._Out = np.multiply((1. - self._mask), self._mX)
applyReverseMask(m) == Zip(Mul, Map(OneMinus, m), mX)

(***************************************************************************)
(* FrequencyMasking.__call__(reverse): compute the mask of the method,     *)
(* then apply it or its complement, and return self._Out.                  *)
(***************************************************************************)
MaskOfMethod ==
    CASE method = "Phase"       -> phaseSensitive
      [] method = "IRM"         -> IRM
      [] method = "IAM"         -> IAM
      [] method = "IBM"         -> IBM
      [] method = "UBBM"        -> UBBM
      [] method = "Wiener"      -> Wiener
      [] method = "alphaWiener" -> alphaHarmonizableProcess
      [] method = "expMask"     -> ExpM

RoutineOfMethod ==
    CASE method = "Phase"       -> "phaseSensitive"
      [] method = "IRM"         -> "IRM"
      [] method = "IAM"         -> "IAM"
      [] method = "IBM"         -> "IBM"
      [] method = "UBBM"        -> "UBBM"
      [] method = "Wiener"      -> "Wiener"
      [] method = "alphaWiener" -> "alphaHarmonizableProcess"
      [] method = "expMask"     -> "ExpM"

\* the guard of the Phase branch: not self._pTarget.size or not self._pTarget.size
PhaseGuard == Len(pTarget.data) = 0 \/ Len(pTarget.data) = 0

AttributeError == "AttributeError: 'list' object has no attribute 'size'"

PhaseError == "ValueError: Phase-sensitive masking cannot be performed without phase information."

BroadcastError == "ValueError: operands could not be broadcast together"

ReverseError == "ValueError: Cannot compute that using such masking method."

\* a reverse application that accepts every method
applyReverseMaskNeverRaises == FALSE

\* applyReverseMask raises for the exponential mask
applyReverseMaskRaises == method = "expMask"

Call(reverse) ==
    /\ pc = "idle"
    /\ called' = IF reverse THEN "reverse" ELSE "forward"
    /\ IF method = "Phase" /\ pTarget.isList
       THEN \* evaluating self._pTarget.size on the default [] fails
            /\ raised' = AttributeError
            /\ ran' = {}
            /\ UNCHANGED <<mask, Out, returned>>
       ELSE IF method = "Phase" /\ PhaseGuard
       THEN /\ raised' = PhaseError
            /\ ran' = {}
            /\ UNCHANGED <<mask, Out, returned>>
       ELSE IF method = "Phase" /\ ~PhaseShapesOk
       THEN \* phaseSensitive is entered and fails at the phase difference
            /\ raised' = BroadcastError
            /\ ran' = {"phaseSensitive"}
            /\ UNCHANGED <<mask, Out, returned>>
       ELSE IF reverse /\ applyReverseMaskRaises
       THEN /\ mask' = MaskOfMethod
            /\ raised' = ReverseError
            /\ ran' = {RoutineOfMethod, "applyReverseMask"}
            /\ UNCHANGED <<Out, returned>>
       ELSE /\ mask' = MaskOfMethod
            /\ Out' = IF reverse THEN applyReverseMask(mask') ELSE applyMask(mask')
            /\ raised' = ""
            /\ ran' = {RoutineOfMethod,
                       IF reverse THEN "applyReverseMask" ELSE "applyMask"}
            /\ returned' = [returned EXCEPT ![reverse] = [has |-> TRUE, val |-> Out']]
    /\ UNCHANGED <<engineVars, self_alpha, optVars>>

(***************************************************************************)
(* Inputs of the engine.                                                   *)
(***************************************************************************)
Methods == {"Phase", "IRM", "IAM", "IBM", "UBBM", "Wiener", "alphaWiener", "expMask"}

ListMethods == {"Wiener", "alphaWiener"}

\* a magnitude whose square overflows the format
Huge == 2 ^ 12

Vals(T) == IF T = 1 THEN {0, F(1), F(2), F(3), Huge} ELSE {F(2), Huge}

MixVals == {F(1), F(3)}

Shapes == {1, 2}

\* the exponent: __init__'s default 1.2 for the methods that do not read it
DefaultAlpha == RU(12 * One, 10)

AlphaMethods == {"IBM", "UBBM", "alphaWiener", "expMask"}

Alphas(m) == IF m \in AlphaMethods THEN {F(1), F(2)} ELSE {DefaultAlpha}

PhaseArrays(T) == {[i \in 1..T |-> 0], [i \in 1..T |-> IF i = 1 THEN PiF ELSE 0]}

\* a phase argument: left at its default, an array of size 0, or an array of
\* the spectrograms' shape
PhaseArgs(T) == {EmptyList, NdArray(<< >>)} \cup {NdArray(a) : a \in PhaseArrays(T)}

Residuals(m, T) ==
    IF m \in ListMethods
    THEN {<<a>> : a \in [1..T -> Vals(T)]}
           \cup {<<a, b>> : a \in [1..T -> Vals(T)], b \in [1..T -> {F(1), Huge}]}
    ELSE [1..T -> Vals(T)]

NoReturn == [has |-> FALSE, val |-> << >>]

OptIdle ==
    /\ alpha = << >>
    /\ d_loss = << >>
    /\ lrs = << >>
    /\ i_s_loss = << >>
    /\ alpha_log = << >>
    /\ iter_index = 0 - 1
    /\ cur_loss = 0
    /\ recorded = << >>
    /\ pc = "idle"
    /\ path = ""
    /\ closs = 0
    /\ amount_iter = 0

InitCall ==
    /\ method \in Methods
    /\ \E T \in Shapes :
         /\ mX \in [1..T -> MixVals]
         /\ sTarget \in [1..T -> Vals(T)]
         /\ nResidual \in Residuals(method, T)
         /\ pTarget \in IF method = "Phase" THEN PhaseArgs(T) ELSE {EmptyList}
         /\ pY \in IF method = "Phase" THEN PhaseArgs(T) ELSE {EmptyList}
    /\ self_alpha \in Alphas(method)
    /\ mask = << >>
    /\ Out = << >>
    /\ called = "none"
    /\ raised = ""
    /\ ran = {}
    /\ returned = [r \in BOOLEAN |-> NoReturn]
    /\ OptIdle

NextCall == \E reverse \in BOOLEAN : Call(reverse)

SpecCall == InitCall /\ [][NextCall]_vars

(***************************************************************************)
(* Claims about __call__, checked under SpecCall.                          *)
(***************************************************************************)
\* a phase argument that is missing (left at []) or of size 0
Missing(p) == Len(p.data) = 0

\* C1: for method Phase, when the target phase or the residual phase is
\* missing or empty, every invocation fails before any computation:
\* phaseSensitive is not run and the stored mask and output stay as they were.
C1_PhaseNeedsBothPhases ==
    (method = "Phase" /\ (Missing(pTarget) \/ Missing(pY)) /\ called # "none")
        => /\ raised \in {PhaseError, AttributeError}
           /\ "phaseSensitive" \notin ran
           /\ mask = << >>
           /\ Out = << >>

\* C2: for method expMask every invocation with reverse=True fails with the
\* unsupported-operation error and returns no output; an invocation with
\* reverse=False never raises that error.
C2_ExpMaskReverseFails ==
    method = "expMask"
        => /\ called = "reverse" => raised = ReverseError
           /\ ~returned[TRUE].has
           /\ called = "forward" => (raised = "" /\ returned[FALSE].has)

C2_Witness ==
    /\ method = "expMask"
    /\ called = "reverse"
    /\ raised = ReverseError
    /\ returned[FALSE].has

BothReturned == returned[FALSE].has /\ returned[TRUE].has

OutFwd == returned[FALSE].val

OutRev == returned[TRUE].val

\* C3 as stated: for every method but expMask, once both invocations have
\* returned, output(reverse=False) + output(reverse=True) equals the mixture
\* element by element.
C3_SumIsMixture ==
    (method # "expMask" /\ BothReturned)
        => /\ Len(OutFwd) = Len(OutRev)
           /\ \A i \in 1..Len(OutFwd) : Add(OutFwd[i], OutRev[i]) = mX[i]

\* the mask the method computes from the engine's inputs is finite at i, and
\* so are both products
FiniteAt(i) ==
    /\ IsFin(MaskOfMethod[i])
    /\ IsFin(OutFwd[i])
    /\ IsFin(OutRev[i])

\* C3 as amended: the two outputs add up to the mixture up to floating-point
\* rounding, |fwd + rev - mX| <= 2 * eps * (|fwd| + |rev|) wherever mask and
\* products are finite, and exactly wherever the mask element is 0 or 1; in
\* either order of the two invocations.
C3_SumIsMixtureRounded ==
    (method # "expMask" /\ BothReturned)
        => /\ Len(OutFwd) = Len(OutRev)
           /\ \A i \in 1..Len(OutFwd) :
                FiniteAt(i) =>
                  /\ Abs(OutFwd[i] + OutRev[i] - mX[i]) * One
                        <= 2 * eps * (Abs(OutFwd[i]) + Abs(OutRev[i]))
                  /\ MaskOfMethod[i] \in {0, One} => OutFwd[i] + OutRev[i] = mX[i]

\* both invocations returned, and the floating-point sum misses the mixture
C3_Witness ==
    /\ method \notin {"expMask", "IBM", "UBBM"}
    /\ BothReturned
    /\ called = "forward"
    /\ \E i \in 1..Len(OutFwd) :
         FiniteAt(i) /\ OutFwd[i] + OutRev[i] # mX[i]

BinaryRan == {"IBM", "UBBM"} \cap ran # {}

\* the quantity IBM / UBBM thresholds, and its threshold
Quantity == IF method = "IBM" THEN IBMRatio ELSE UBBMdB

ThresholdOf == IF method = "IBM" THEN One \div 2 ELSE 0

Iterations == 9

AlphaScale == 10 ^ 8

Hundredth == AlphaScale \div 100

LossScale == 10 ^ 5

\* alpha = np.array([1.15] * num_elements)
InitAlpha == 115 * Hundredth

\* self._lr = 1.5e-3
InitLr == (15 * AlphaScale) \div (10 ^ 4)

\* np.clip(alpha, a_min=0.5, a_max=2.)
AlphaMin == 50 * Hundredth

AlphaMax == 200 * Hundredth

\* the stagnation tolerance 1e-4 and the loss 3e-1 above which a run is stuck
Tol == LossScale \div (10 ^ 4)

StuckLoss == (3 * LossScale) \div 10

GradVecs == {<<150, 0 - 4>>}

LossSet == {20000, 20005, 40000}

\* s_list: the target followed by the residual components
num_elements == Len(nResidual) + 1

Sources == 1..num_elements

\* Python's seq[j] for a 0-based index j, negative j counting from the end
PyIndex(seq, j) == IF j < 0 THEN seq[Len(seq) + j + 1] ELSE seq[j + 1]

\* np.argmin: the 0-based index of the first minimum
ArgMin(seq) ==
    CHOOSE j \in 0..(Len(seq) - 1) :
        /\ \A k \in 1..Len(seq) : seq[j + 1] <= seq[k]
        /\ \A k \in 1..j : seq[k] > seq[j + 1]

\* alpha -= (lrs * d_loss)
Descend(a, lr, dl) == [s \in DOMAIN a |-> a[s] - lr[s] * dl[s]]

Clip(x) == IF x < AlphaMin THEN AlphaMin ELSE IF x > AlphaMax THEN AlphaMax ELSE x

\* np.round(alpha * 100.) / 100.
Round2(x) == RHE(x, Hundredth) * Hundredth

ClipRound(a) == [s \in DOMAIN a |-> Round2(Clip(a[s]))]

\* alpha -= ... updates in place the array alpha refers to: from the second
\* iteration on that array is the one appended last to alpha_log
InPlace(log, updated) ==
    IF log = << >> THEN log ELSE [log EXCEPT ![Len(log)] = updated]

\* an increase factor of 1.2 instead of self._eta_plus
EtaPlusLarger(lr) == [s \in DOMAIN lr |-> (lr[s] * 12) \div 10]

\* lrs *= self._eta_plus, lrs *= self._eta_minus
EtaPlus(lr) == [s \in DOMAIN lr |-> (lr[s] * 11) \div 10]

EtaMinus(lr) == [s \in DOMAIN lr |-> lr[s] \div 10]

\* the RProp step of iteration i on the loss history including this iteration
RProp(lr, losses, i) ==
    IF i > 2
    THEN IF PyIndex(losses, 0 - 2) - PyIndex(losses, 0 - 1) > 0 THEN EtaPlus(lr)
         ELSE IF PyIndex(losses, 0 - 2) - PyIndex(losses, 0 - 1) < 0 THEN EtaMinus(lr)
         ELSE lr
    ELSE lr

\* a stagnation test that opens one iteration early
StagnantFromFour(losses, i) ==
    /\ i > 2
    /\ i > 3
    /\ Abs(PyIndex(losses, 0 - 2) - PyIndex(losses, 0 - 1)) < Tol
    /\ Abs(PyIndex(losses, 0 - 3) - PyIndex(losses, 0 - 2)) < Tol

\* the stagnation test of iteration i
Stagnant(losses, i) ==
    /\ i > 2
    /\ i > 4
    /\ Abs(PyIndex(losses, 0 - 2) - PyIndex(losses, 0 - 1)) < Tol
    /\ Abs(PyIndex(losses, 0 - 3) - PyIndex(losses, 0 - 2)) < Tol

Stuck(losses) == PyIndex(losses, 0 - 1) > StuckLoss

\* alpha = alpha_log[np.argmin(i_s_loss) - 1]
RollBack(log, losses) == PyIndex(log, ArgMin(losses) - 1)

optAlphaBegin ==
    /\ pc = "idle"
    /\ alpha' = [s \in Sources |-> InitAlpha]
    /\ d_loss' = [s \in Sources |-> 0]
    /\ lrs' = [s \in Sources |-> InitLr]
    /\ i_s_loss' = << >>
    /\ alpha_log' = << >>
    /\ pc' = "loop"
    /\ UNCHANGED <<engineVars, self_alpha, mask, callVars, iter_index, cur_loss,
                   recorded, path, closs, amount_iter>>

\* one pass through the body of the for loop, with the break
Iterate(dl, loss) ==
    LET i       == iter_index + 1
        updated == Descend(alpha, lrs, dl)
        rounded == ClipRound(updated)
        log     == Append(InPlace(alpha_log, updated), rounded)
        losses  == Append(i_s_loss, loss)
    IN  /\ pc = "loop"
        /\ iter_index' = i
        /\ d_loss' = dl
        /\ alpha_log' = log
        /\ cur_loss' = loss
        /\ recorded' = Append(recorded, rounded)
        /\ lrs' = RProp(lrs, losses, i)
        /\ IF Stagnant(losses, i)
           THEN /\ pc' = "after"
                /\ IF Stuck(losses)
                   THEN /\ path' = "stuck"
                        /\ alpha' = RollBack(log, losses)
                        /\ i_s_loss' = [losses EXCEPT ![Len(losses)] =
                                           PyIndex(losses, ArgMin(losses))]
                   ELSE /\ path' = "localmin"
                        /\ alpha' = rounded
                        /\ i_s_loss' = losses
           ELSE /\ alpha' = rounded
                /\ i_s_loss' = losses
                /\ pc' = IF i + 1 < Iterations THEN "loop" ELSE "after"
                /\ path' = IF i + 1 < Iterations THEN "" ELSE "cap"
        /\ UNCHANGED <<engineVars, self_alpha, mask, callVars, closs, amount_iter>>

\* the mask optAlpha stores: (s_list[0] ** a[0] + eps) / (Xhat(a) + eps), kept
\* as the exponent array a it is evaluated with
MaskWith(a) == [exponents |-> a]

\* the statements after the loop
Finish ==
    /\ pc = "after"
    /\ IF iter_index = Iterations
       THEN /\ self_alpha' = PyIndex(alpha_log, ArgMin(i_s_loss))
            /\ closs' = PyIndex(i_s_loss, ArgMin(i_s_loss))
       ELSE /\ closs' = PyIndex(i_s_loss, 0 - 1)
            /\ self_alpha' = alpha
    /\ amount_iter' = iter_index
    /\ mask' = MaskWith(alpha)
    /\ pc' = "done"
    /\ UNCHANGED <<engineVars, callVars, alpha, d_loss, lrs, i_s_loss, alpha_log,
                   iter_index, cur_loss, recorded, path>>

InitOpt ==
    /\ method = "alphaWiener"
    /\ mX = <<F(3)>>
    /\ sTarget = <<F(2)>>
    /\ nResidual = <<(<<F(1)>>)>>
    /\ pTarget = EmptyList
    /\ pY = EmptyList
    /\ self_alpha = DefaultAlpha
    /\ mask = << >>
    /\ Out = << >>
    /\ called = "none"
    /\ raised = ""
    /\ ran = {}
    /\ returned = [r \in BOOLEAN |-> NoReturn]
    /\ OptIdle

IterateAny == \E dl \in GradVecs, loss \in LossSet : Iterate(dl, loss)

NextOpt == optAlphaBegin \/ IterateAny \/ Finish

SpecOpt == InitOpt /\ [][NextOpt]_vars

(***************************************************************************)
(* Claims about optAlpha, checked under SpecOpt.                           *)
(***************************************************************************)
\* the number of iterations of the loop body executed so far
Executed == Len(recorded)

\* the loss history as computed: the stuck exit overwrites its last entry
Computed == IF i_s_loss = << >> THEN i_s_loss
            ELSE [i_s_loss EXCEPT ![Len(i_s_loss)] = cur_loss]

Broke == path \in {"stuck", "localmin"}

\* C5: when optAlpha returns, the stored iteration count is the number of
\* iterations executed: k when the stagnation exit is taken in the k-th
\* iteration, the cap when the iterations are exhausted.
C5_CountIsExecuted ==
    pc = "done"
        => /\ amount_iter = Executed
           /\ path = "cap" => amount_iter = Iterations

\* C6: when the iterations are exhausted without the stagnation exit, the
\* committed exponent array is the entry recorded at the iteration of the
\* minimum loss, and the final mask is computed from the committed array.
C6_CapCommitsArgMin ==
    (pc = "done" /\ path = "cap")
        => /\ self_alpha = PyIndex(recorded, ArgMin(Computed))
           /\ mask = MaskWith(self_alpha)

\* C7: on the stagnation exit, a terminal loss above 0.3 commits the exponent
\* array recorded at the iteration of the minimum loss; a terminal loss of at
\* most 0.3 commits the array of the last iteration.
C7_StagnationCommit ==
    (pc = "done" /\ Broke)
        => IF cur_loss > StuckLoss
           THEN self_alpha = PyIndex(recorded, ArgMin(Computed))
           ELSE self_alpha = PyIndex(recorded, 0 - 1)

\* the rates after comparing the loss before with the loss now
Rescaled(lr, before, now) ==
    [s \in DOMAIN lr |->
        IF now < before THEN (lr[s] * 11) \div 10
        ELSE IF now > before THEN lr[s] \div 10
        ELSE lr[s]]

IterationStep == iter_index' # iter_index

\* C8 as stated: in every iteration at which the loss history holds at least
\* two values the rates are rescaled by the comparison of the two most recent
\* losses (x 1.1 on a decrease, x 0.1 on an increase, unchanged when equal),
\* and they change in no other way.
C8_RPropFromTwoLosses ==
    [][/\ (IterationStep /\ Len(i_s_loss) >= 1)
            => lrs' = Rescaled(lrs, PyIndex(i_s_loss, 0 - 1), cur_loss')
       /\ (IterationStep /\ Len(i_s_loss) < 1) => lrs' = lrs
       /\ (~IterationStep /\ pc # "idle") => lrs' = lrs]_vars

\* C8 as amended: the rescaling happens in the iterations with iter_index > 2,
\* when the loss history holds at least four values; in the first three
\* iterations, and outside the loop, the rates stay as they are.
C8_RPropFromFourLosses ==
    [][/\ (IterationStep /\ iter_index' > 2)
            => /\ Len(i_s_loss) >= 3
               /\ lrs' = Rescaled(lrs, PyIndex(i_s_loss, 0 - 1), cur_loss')
       /\ (IterationStep /\ iter_index' <= 2) => lrs' = lrs
       /\ (~IterationStep /\ pc # "idle") => lrs' = lrs]_vars

\* after a fourth iteration with a lower loss, one with a higher loss
C8_Witness ==
    /\ iter_index = 4
    /\ \A s \in Sources : lrs[s] = ((InitLr * 11) \div 10) \div 10

InRange(a) ==
    \A s \in DOMAIN a :
        /\ a[s] >= AlphaMin
        /\ a[s] <= AlphaMax
        /\ a[s] % Hundredth = 0

\* C9: every exponent array optAlpha records in its history, and the array it
\* commits on return (on every exit path), has all components in [0.5, 2.0]
\* and rounded to two decimals.
C9_ExponentsBounded ==
    /\ \A k \in 1..Len(recorded) : InRange(recorded[k])
    /\ pc = "done" => InRange(self_alpha)

\* the stagnation criterion on the computed history h at iteration i (0-based)
SmallDeltas(h, i) ==
    /\ Abs(h[i] - h[i + 1]) < Tol
    /\ Abs(h[i - 1] - h[i]) < Tol

\* C10: optAlpha leaves the loop early exactly when, at an iteration with
\* index above 4, the last two loss deltas are both below 1e-4 in magnitude;
\* it never leaves at iteration 4 or earlier, it executes at most the cap's
\* number of iterations, and fewer than that exactly when the criterion is
\* met before the last iteration.
C10_EarlyStopIffStagnant ==
    /\ Executed <= Iterations
    /\ Broke => /\ iter_index > 4
                /\ SmallDeltas(Computed, iter_index)
    /\ \A i \in 5..(Executed - 1) :
         SmallDeltas(Computed, i) => (Broke /\ i = iter_index)
    /\ (pc \in {"after", "done"} /\ ~Broke) => Executed = Iterations
    /\ pc \in {"after", "done"}
         => (Executed < Iterations
               <=> \E i \in 5..(Iterations - 2) :
                     i <= Executed - 1 /\ SmallDeltas(Computed, i))

\* the stagnation exit taken with iterations of the cap left
C10_Witness ==
    /\ pc = "done"
    /\ Broke
    /\ Executed < Iterations
    /\ \E i \in 2..4 : SmallDeltas(Computed, i)

\* C11: throughout a run the exponent history and the loss history stay
\* aligned and append-only: they have the same length, and every entry of the
\* exponent history is still the vector that was appended at its iteration,
\* the one its loss was computed with; no later iteration changes it.
C11_HistoriesAligned ==
    /\ Len(alpha_log) = Len(i_s_loss)
    /\ Len(alpha_log) = Len(recorded)
    /\ \A k \in 1..Len(alpha_log) : alpha_log[k] = recorded[k]

====
